---------------------------- MODULE Spec2Model ----------------------------
(***************************************************************************)
(* The repair orchestration graph of backend/langgraph_flow.py together    *)
(* with the parts of the sandbox runner and the Docker builder that decide *)
(* its routing.                                                            *)
(*                                                                         *)
(* One action per graph node.  A node and the conditional edge that leaves *)
(* it run in the same super-step, so the routing function is applied to    *)
(* the state the node produced and is part of the node's action.           *)
(*                                                                         *)
(* Session state is the AgentState dictionary.  Keys that only a node sets *)
(* (repo_path, branch_name, the docker_* keys) are unset until that node   *)
(* has run; state["k"] on an unset key raises KeyError and ends the run    *)
(* (pc = "crashed"), state.get("k", d) yields d.                           *)
(*                                                                         *)
(* logs is kept as the set of distinct line kinds appended so far (the     *)
(* text parameters and the order of the Python list are abstracted).       *)
(*                                                                         *)
(* Spec is the graph.  ExecSpec is one call of the sandbox executor,       *)
(* DockerManager.run_tests_in_sandbox, one action per external call it     *)
(* blocks on; the executor's variables rest while the graph runs and the   *)
(* graph's rest while the executor runs.  RunnerSpec is one execution of   *)
(* scripts/universal_runner.py, one action per command it runs.            *)
(* AnalyzeSpec is ANALYZE and FIX applied to the error record TEST leaves  *)
(* for each result the runner can print.                                   *)
(***************************************************************************)
EXTENDS Integers, Sequences, FiniteSets, TLC

(* ------------------------------ bounds -------------------------------- *)

\* largest max_iterations a caller passes in
MaxMaxIterations == 3

(* ------------------------ values of the program ----------------------- *)

\* a dictionary key that is not set / a Python None / a path with no file
Unset == "<unset>"
\* docker_retry_count before clone_node initialised it
NoCount == -1
\* line of an error record that carries no "line" key
NoLine == -1

RepoDir == "workspace/repo"
FixBranch == "TEAM_LEADER_AI_Fix"
DefaultImageTag == "rift-sandbox:latest"
BuiltImageTag == "test-build-team:latest"

\* docker_runner.py: the log texts build_image returns
BuiltLog == "Image built successfully"
UnavailableLog == "Docker unavailable on this system."
BuildErrorLog == "The command returned a non-zero code"

\* the retry cap of route_after_validation
DockerRetryCap == 3

Nodes ==
    {"clone", "analyze_project", "check_dockerfile", "generate_dockerfile",
     "validate_docker", "fix_dockerfile", "test", "analyze", "fix", "commit",
     "create_pr"}

\* the paths of the checkout the nodes and the runner probe
Paths ==
    {"requirements.txt", "package.json", "main.py", "index.js", "src/app.py",
     "Dockerfile", "explain.txt", "app.py", "unknown"}

OriginalCode == "original code"

\* repositories the clone may deliver
RepoContents ==
    { {"requirements.txt", "src/app.py"},
      {"package.json", "index.js", "Dockerfile"} }

VARIABLES
    pc,                 \* node to run next, "END", or "crashed"
    token,              \* AgentState.token ("" when the caller gave none)
    repo_path,
    branch_name,
    iteration,
    max_iterations,
    test_status,
    logs,
    fixes_applied,
    current_error,
    language_detected,
    docker_exists,
    docker_retry_count,
    docker_build_logs,
    docker_image_tag,
    disk,               \* the checkout: path -> content, Unset where no file
    res,                \* status and runner exit code of the last test result
    file_list,          \* the file_list key of the state; no node writes it
    runtime,            \* observer: the container runtime at the last build
    visits,             \* observer: how often each node has run
    prev,               \* observer: the node that ran last
    commit_outcome,     \* observer: what the last commit_node did
    classified,         \* observer: how analyze_node classified the
                        \* error of the last test run
    \* one call of DockerManager.run_tests_in_sandbox
    exec_pc,            \* the call the executor is at, or "returned"
    client,             \* DockerManager.client is not None
    allow_local,        \* Config.AI_AGENT_ALLOW_LOCAL_RUN
    mount_path,         \* the mount_path argument is given
    image_tag,          \* the image_tag argument
    workspace,          \* content of the fixed file in the session workspace
    runner_out,         \* what the runner prints once it is run
    container,          \* "none", "running", "exited" or "removed"
    local_run,          \* run_tests_locally was entered
    subprocess_started, \* the local runner subprocess was started
    tested,             \* content of the file the runner ran against
    exec_logs,          \* the output captured from the runner
    exec_result,        \* the dictionary the call returned
    \* one execution of universal_runner.py
    run_pc,             \* the phase the runner is at, or "done"
    cwd,                \* the directory it runs in: file -> content
    RESULTS,            \* the module-level RESULTS dictionary
    install_exit,       \* exit code of the install command, if it was run
    test_exit,          \* exit code of the test command, if it was run
    run_exit,           \* exit code of the run command, if it was run
    commands,           \* the phases whose command was run, in order
    stdout              \* what the runner has printed

\* the session state of the graph
graph_vars ==
    <<pc, repo_path, branch_name, iteration, max_iterations,
      test_status, logs, fixes_applied, current_error, language_detected,
      docker_exists, docker_retry_count, docker_build_logs, docker_image_tag,
      disk, res, runtime, visits, prev, commit_outcome, classified,
      file_list>>

\* what one executor call is given; a call changes none of it
exec_args ==
    <<client, allow_local, mount_path, image_tag, workspace, runner_out>>

\* the state of one executor call
exec_vars ==
    <<exec_args, exec_pc, container, local_run, subprocess_started, tested,
      exec_logs, exec_result>>

\* the state of one runner execution
runner_vars ==
    <<run_pc, cwd, RESULTS, install_exit, test_exit, run_exit, commands,
      stdout>>

vars == <<graph_vars, token, exec_vars, runner_vars>>

\* state.get(key, default)
Get(v, default) == IF v = Unset THEN default ELSE v
GetCount(v, default) == IF v = NoCount THEN default ELSE v

\* os.path.exists(os.path.join(repo_path, f))
Exists(d, f) == f \in DOMAIN d /\ d[f] # Unset

\* the error record {} (no key set)
EmptyError ==
    [file |-> Unset, line |-> NoLine, type |-> Unset, desc |-> Unset,
     raw_logs |-> Unset]

NoResult ==
    [status |-> Unset, language |-> Unset, errors |-> <<>>, raw_logs |-> Unset,
     runner_exit |-> NoCount, logs |-> Unset]

\* what is kept of a result once test_node has returned
Seen(r) == [status |-> r.status, runner_exit |-> r.runner_exit]

Visit(n) == [visits EXCEPT ![n] = @ + 1]

\* an exception leaves the node: the run is over, nothing is returned
Raise(n) ==
    /\ pc' = "crashed"
    /\ visits' = Visit(n)
    /\ prev' = n
    /\ UNCHANGED <<file_list, exec_vars, runner_vars>>

Step(n, next) ==
    /\ pc' = next
    /\ visits' = Visit(n)
    /\ prev' = n
    /\ UNCHANGED <<file_list, exec_vars, runner_vars>>

(* ------------------------------- Init --------------------------------- *)

\* no analyze_node has run
NoClassification ==
    [by |-> Unset, kind |-> Unset, file |-> Unset, line |-> NoLine,
     type |-> Unset, desc |-> Unset]

\* the AgentState a session starts from
GraphInit ==
    /\ pc = "clone"
    /\ token \in {"", "ghp_secret"}
    /\ repo_path = Unset
    /\ branch_name = Unset
    /\ iteration = 0
    /\ max_iterations \in 0..MaxMaxIterations
    /\ test_status = "UNKNOWN"
    /\ logs = {}
    /\ fixes_applied = <<>>
    /\ current_error = EmptyError
    /\ language_detected = Unset
    /\ docker_exists = Unset
    /\ docker_retry_count = NoCount
    /\ docker_build_logs = Unset
    /\ docker_image_tag = Unset
    /\ disk = [f \in Paths |-> Unset]
    /\ res = Seen(NoResult)
    /\ runtime = Unset
    /\ visits = [n \in Nodes |-> 0]
    /\ prev = Unset
    /\ commit_outcome = Unset
    /\ classified = NoClassification
    /\ file_list = {}

\* no executor call is under way
ExecIdle ==
    /\ exec_pc = "idle"
    /\ client = TRUE
    /\ allow_local = FALSE
    /\ mount_path = TRUE
    /\ image_tag = DefaultImageTag
    /\ workspace = Unset
    /\ runner_out = Unset
    /\ container = "none"
    /\ local_run = FALSE
    /\ subprocess_started = FALSE
    /\ tested = Unset
    /\ exec_logs = Unset
    /\ exec_result = Unset

\* universal_runner.py lines 9-15: RESULTS as the module defines it;
\* raw_logs is the sequence of the segments appended to it
InitialResults ==
    [status |-> "FAILED", language |-> "Unknown", exit_code |-> 1,
     errors |-> <<>>, raw_logs |-> <<>>]

\* no runner is under way
RunnerIdle ==
    /\ run_pc = "idle"
    /\ cwd = <<>>
    /\ RESULTS = InitialResults
    /\ install_exit = NoCount
    /\ test_exit = NoCount
    /\ run_exit = NoCount
    /\ commands = <<>>
    /\ stdout = <<>>

Init == GraphInit /\ ExecIdle /\ RunnerIdle

(* ------------------------- clone / analysis --------------------------- *)

clone_node ==
    /\ pc = "clone"
    /\ \E ok \in BOOLEAN, contents \in RepoContents :
        IF ~ok
        THEN \* lines 61-64: log, test_status = ERROR, nothing else is set
             /\ logs' = logs \cup {"--- Cloning Repository ---", "Clone Failed"}
             /\ test_status' = "ERROR"
             /\ UNCHANGED <<repo_path, branch_name, docker_retry_count,
                            docker_build_logs, docker_image_tag, disk>>
        ELSE /\ logs' = logs \cup {"--- Cloning Repository ---",
                                   "Cloned repository", "Created branch"}
             /\ repo_path' = RepoDir
             /\ branch_name' = FixBranch
             /\ docker_retry_count' = 0
             /\ docker_build_logs' = ""
             /\ docker_image_tag' = DefaultImageTag
             /\ disk' = [f \in Paths |->
                            IF f \in contents THEN OriginalCode ELSE Unset]
             /\ UNCHANGED test_status
    /\ Step("clone", "analyze_project")
    /\ UNCHANGED <<token, iteration, max_iterations, fixes_applied,
                   current_error, language_detected, docker_exists, res,
                   runtime,
                   commit_outcome, classified>>

analyze_project_node ==
    /\ pc = "analyze_project"
    /\ logs' = logs \cup
          ({"--- Analyzing Project Structure ---"} \cup
           IF repo_path = Unset THEN {}
           ELSE {"Identifying critical files...", "Selected files for analysis",
                 "Project analysis saved to explain.txt"})
    /\ IF repo_path = Unset
       THEN \* line 83: state["repo_path"] raises KeyError
            /\ Raise("analyze_project")
            /\ UNCHANGED disk
       ELSE \E explanation \in {"", "project summary"} :
            /\ disk' = [disk EXCEPT !["explain.txt"] = explanation]
            /\ Step("analyze_project", "check_dockerfile")
    /\ UNCHANGED <<token, repo_path, branch_name, iteration, max_iterations,
                   test_status, fixes_applied, current_error,
                   language_detected, docker_exists, docker_retry_count,
                   docker_build_logs, docker_image_tag, res, runtime,
                   commit_outcome, classified>>

(* --------------------------- Dockerfile loop -------------------------- *)

route_dockerfile(exists) ==
    IF exists THEN "validate_docker" ELSE "generate_dockerfile"

check_dockerfile_node ==
    /\ pc = "check_dockerfile"
    /\ LET found == Exists(disk, "Dockerfile") IN
        /\ logs' = logs \cup {"--- Checking for Dockerfile ---",
                              IF found THEN "Dockerfile found."
                              ELSE "Dockerfile NOT found."}
        /\ docker_exists' = found
        /\ Step("check_dockerfile", route_dockerfile(found))
    /\ UNCHANGED <<token, repo_path, branch_name, iteration, max_iterations,
                   test_status, fixes_applied, current_error,
                   language_detected, docker_retry_count, docker_build_logs,
                   docker_image_tag, disk, res, runtime,
                   commit_outcome, classified>>

generate_dockerfile_node ==
    /\ pc = "generate_dockerfile"
    /\ IF disk["explain.txt"] \in {Unset, ""}
       THEN \* project_context is empty: line 185 reads sample_content,
            \* which only line 181 binds (UnboundLocalError)
            /\ logs' = logs \cup {"--- Generating Dockerfile ---"}
            /\ Raise("generate_dockerfile")
            /\ UNCHANGED <<disk, docker_exists>>
       ELSE /\ logs' = logs \cup {"--- Generating Dockerfile ---",
                                  "Using explain.txt for Dockerfile generation",
                                  "Dockerfile generated."}
            /\ disk' = [disk EXCEPT !["Dockerfile"] = "generated Dockerfile"]
            /\ docker_exists' = TRUE
            /\ Step("generate_dockerfile", "validate_docker")
    /\ UNCHANGED <<token, repo_path, branch_name, iteration, max_iterations,
                   test_status, fixes_applied, current_error,
                   language_detected, docker_retry_count, docker_build_logs,
                   docker_image_tag, res, runtime,
                   commit_outcome, classified>>

\* DockerTestRunner.build_image: what the build reports for each thing the
\* container runtime can do
build_image(rt) ==
    CASE rt = "unavailable" -> [status |-> "error", logs |-> UnavailableLog]
      [] rt = "built"       -> [status |-> "success", logs |-> BuiltLog]
      [] OTHER              -> [status |-> "error", logs |-> BuildErrorLog]

\* the retry cap is tested one too late
route_after_validation_late(build_logs, retry_count) ==
    IF build_logs = BuiltLog THEN "test"
    ELSE IF retry_count > DockerRetryCap THEN "create_pr"
    ELSE "fix_dockerfile"

\* the retry cap is tested before the build result
route_after_validation_cap_first(build_logs, retry_count) ==
    IF retry_count >= DockerRetryCap - 1 THEN "create_pr"
    ELSE IF build_logs = BuiltLog THEN "test"
    ELSE "fix_dockerfile"

\* the abort goes on to the tests
route_after_validation_abort_to_test(build_logs, retry_count) ==
    IF build_logs = BuiltLog THEN "test"
    ELSE IF retry_count >= DockerRetryCap THEN "test"
    ELSE "fix_dockerfile"

\* the branch route_after_validation takes: "test", "create_pr" (abort) or
\* "fix_dockerfile"
route_after_validation(build_logs, retry_count) ==
    IF build_logs = BuiltLog THEN "test"
    ELSE IF retry_count >= DockerRetryCap THEN "create_pr"
    ELSE "fix_dockerfile"

validate_docker_node ==
    /\ pc = "validate_docker"
    /\ \E rt \in {"built", "build_error", "unavailable"} :
        LET retry_count == GetCount(docker_retry_count, 0)
            result == build_image(rt)
            ok == result.status = "success"
            new_logs == IF ok THEN BuiltLog ELSE result.logs
            next == route_after_validation(new_logs, retry_count)
        IN  /\ runtime' = rt
            /\ docker_build_logs' = new_logs
            /\ docker_image_tag' =
                  IF ok THEN BuiltImageTag ELSE docker_image_tag
            /\ docker_retry_count' =
                  IF ok THEN docker_retry_count ELSE retry_count
            \* route_after_validation, lines 473-476: the append mutates the
            \* shared list and is kept; state["test_status"] = "ERROR" is an
            \* item assignment on the snapshot handed to the routing function,
            \* a conditional edge writes no channel, so the session keeps the
            \* test_status it had
            /\ logs' = logs \cup
                  ({"--- Validating Dockerfile ---",
                    IF ok THEN "Dockerfile validation SUCCESS"
                    ELSE "Dockerfile validation FAILED"} \cup
                   IF next = "create_pr"
                   THEN {"Docker build failed after 3 retries. Aborting."}
                   ELSE {})
            /\ Step("validate_docker", next)
    /\ UNCHANGED <<token, repo_path, branch_name, iteration, max_iterations,
                   test_status, fixes_applied, current_error,
                   language_detected, docker_exists, disk, res,
                   commit_outcome, classified>>

\* the retry count is left as it is
next_retry_count_unchanged(count) == GetCount(count, 0)

\* fix_dockerfile_node, line 234: state.get("docker_retry_count", 0) + 1
next_retry_count(count) == GetCount(count, 0) + 1

fix_dockerfile_node ==
    /\ pc = "fix_dockerfile"
    /\ IF Exists(disk, "Dockerfile")
       THEN /\ logs' = logs \cup {"--- Fixing Dockerfile ---",
                                  "Dockerfile updated by AI."}
            /\ disk' = [disk EXCEPT !["Dockerfile"] = "repaired Dockerfile"]
       ELSE /\ logs' = logs \cup {"--- Fixing Dockerfile ---"}
            /\ UNCHANGED disk
    /\ docker_retry_count' = next_retry_count(docker_retry_count)
    /\ Step("fix_dockerfile", "validate_docker")
    /\ UNCHANGED <<token, repo_path, branch_name, iteration, max_iterations,
                   test_status, fixes_applied, current_error,
                   language_detected, docker_exists, docker_build_logs,
                   docker_image_tag, res, runtime,
                   commit_outcome, classified>>

(* ------------------------- the sandbox test run ----------------------- *)

\* the extension of a file name, "" when it has none the scan knows
extension(f) ==
    CASE f \in {"main.py", "src/app.py", "app.py"} -> ".py"
      [] f = "index.js"                               -> ".js"
      [] f = "app.csproj"                             -> ".csproj"
      [] OTHER                                        -> ""

\* detect_language lines 93-103: the language an extension stands for
scan_language(ext) ==
    CASE ext = ".csproj" -> "csharp"
      [] ext = ".py"     -> "python"
      [] ext = ".js"     -> "node"
      [] OTHER           -> "unknown"

\* detect_language lines 91-105: the first file of os.walk whose extension
\* is known decides.  The directories of this model hold files of at most
\* one known extension wherever the scan is reached, so the order of the
\* walk does not show.
extension_scan(d) ==
    LET known == {scan_language(extension(f)) :
                     f \in {g \in DOMAIN d : d[g] # Unset}} \ {"unknown"}
    IN  IF known = {} THEN "unknown" ELSE CHOOSE l \in known : TRUE

\* universal_runner.py detect_language: the priority probe of lines 83-88,
\* then the extension scan
detect_language(d) ==
    IF Exists(d, "pom.xml") THEN "java_maven"
    ELSE IF Exists(d, "build.gradle") THEN "java_gradle"
    ELSE IF Exists(d, "package.json") THEN "node"
    ELSE IF Exists(d, "go.mod") THEN "go"
    ELSE IF Exists(d, "Cargo.toml") THEN "rust"
    ELSE IF Exists(d, "requirements.txt") THEN "python"
    ELSE extension_scan(d)

\* LANGUAGE_CONFIG: does the language define install / run commands
HasInstall(d, lang) ==
    \/ lang \in {"node", "php", "ruby"}
    \/ lang = "python" /\ Exists(d, "requirements.txt")

\* every language gets a run command
HasRun_always(lang) == TRUE

\* LANGUAGE_CONFIG: the language has a "run" entry
HasRun(lang) == lang = "node"

\* exit code of a command that hit `timeout`
TimeoutExit == 124

\* a timeout of the run command counts as a failure
final_code_timeout_is_crash(lang, test_code, run_code) ==
    IF test_code # 0 /\ HasRun(lang) THEN run_code ELSE test_code

\* universal_runner.py main, lines 170-212: the exit code the run ends with.
\* Every language of LANGUAGE_CONFIG has a test command.
final_code(lang, test_code, run_code) ==
    IF test_code # 0 /\ HasRun(lang)
    THEN IF run_code = TimeoutExit THEN 0 ELSE run_code
    ELSE test_code

\* universal_runner.py main, line 213
runner_status(code) == IF code = 0 THEN "PASSED" ELSE "FAILED"

\* what the commands of one runner execution did: a run whose install step
\* went through, one whose install step failed, one that raised, and the
\* run of a package.json without a test script
RunnerRuns ==
    [install_code : {0}, test_code : {0, 1}, run_code : {0, 1, TimeoutExit},
     candidates : {<<>>, <<[file |-> "src/app.py", line |-> 42]>>},
     raw_logs : {"test output"},
     exception : {FALSE}]
    \cup
    [install_code : {1}, test_code : {1}, run_code : {1},
     candidates : {<<>>},
     raw_logs : {"test output"},
     exception : BOOLEAN]
    \cup
    [install_code : {0}, test_code : {1}, run_code : {1},
     candidates : {<<>>},
     raw_logs : {"npm ERR! Missing script: test"},
     exception : {FALSE}]

\* universal_runner.py main: the RESULTS object it prints
universal_runner(d, run) ==
    LET lang == detect_language(d)
        code == final_code(lang, run.test_code, run.run_code)
    IN  IF run.exception
        THEN [status |-> "SYSTEM_ERROR", language |-> lang, errors |-> <<>>,
              raw_logs |-> run.raw_logs, runner_exit |-> 1, logs |-> Unset]
        ELSE IF lang = "unknown"
        THEN [status |-> "FAILED", language |-> lang, errors |-> <<>>,
              raw_logs |-> "", runner_exit |-> 1, logs |-> Unset]
        ELSE IF HasInstall(d, lang) /\ run.install_code # 0
        THEN [status |-> "INSTALL_FAILED", language |-> lang, errors |-> <<>>,
              raw_logs |-> run.raw_logs, runner_exit |-> run.install_code,
              logs |-> Unset]
        ELSE [status |-> runner_status(code), language |-> lang,
              errors |-> IF code # 0 THEN run.candidates ELSE <<>>,
              raw_logs |-> run.raw_logs, runner_exit |-> code,
              logs |-> Unset]

\* a result the executor makes up itself: {"status": "ERROR", "logs": text}
ErrorResult(text) ==
    [status |-> "ERROR", language |-> Unset, errors |-> <<>>,
     raw_logs |-> Unset, runner_exit |-> NoCount, logs |-> text]

\* Captured output is a sequence of tokens: "{" and "}" are brace
\* characters outside any JSON string, "str" is a JSON string without a
\* brace, "str{" a JSON string that holds an opening brace, "text" free
\* output without a brace and "text{" free output that holds one.
BraceLog == "TypeError: {} is not iterable"
HasBrace(text) == text = BraceLog

RECURSIVE error_objects(_)
\* the objects of the "errors" list, one nested object per candidate
error_objects(errs) ==
    IF errs = <<>> THEN <<>> ELSE <<"{", "}">> \o error_objects(Tail(errs))

\* universal_runner.py, print(json.dumps(RESULTS)): errors before raw_logs
dumps(r) ==
    <<"{">> \o error_objects(r.errors)
            \o <<IF HasBrace(r.raw_logs) THEN "str{" ELSE "str">> \o <<"}">>

\* logs.rfind('{'): the last token that holds an opening brace, 0 for -1
rfind_brace(out) ==
    LET at == {i \in 1..Len(out) : out[i] \in {"{", "str{", "text{"}}
    IN  IF at = {} THEN 0 ELSE CHOOSE i \in at : \A j \in at : j <= i

RECURSIVE close_of(_, _, _)
\* the index at which the object opened at s[1] is closed, 0 when the text
\* is no JSON up to there
close_of(s, i, depth) ==
    IF i > Len(s) THEN 0
    ELSE IF s[i] = "{" THEN close_of(s, i + 1, depth + 1)
    ELSE IF s[i] = "}"
    THEN IF depth = 1 THEN i ELSE close_of(s, i + 1, depth - 1)
    ELSE IF s[i] \in {"str", "str{"} THEN close_of(s, i + 1, depth)
    ELSE 0

\* json.loads(json_str) returns: the text is one object and nothing more.
\* A tail cut at a brace inside a string or inside free output does not
\* start with an object.
loads(s) == s # <<>> /\ s[1] = "{" /\ close_of(s, 1, 0) = Len(s)

\* run_tests_in_sandbox lines 148-167, run_tests_locally lines 217-228: the
\* object that starts at the last opening brace of the output, which is the
\* runner's result r when that tail is r's whole rendering; the ERROR
\* dictionary when there is no brace or the tail does not parse
extract(out, r) ==
    LET json_start == rfind_brace(out)
        json_str == SubSeq(out, json_start, Len(out))
    IN  IF json_start # 0 /\ loads(json_str) /\ json_str = dumps(r)
        THEN IF r.raw_logs = ""
             THEN [r EXCEPT !.raw_logs = "captured output"]
             ELSE r
        ELSE ErrorResult("captured output")

\* DockerManager.run_tests_in_sandbox / run_tests_locally as test_node sees
\* them: what is extracted from the runner's output when the runner was
\* run, an ERROR result otherwise (no runtime, no image, container failure)
run_tests_in_sandbox(executed, runner_result) ==
    IF executed
    THEN extract(dumps(runner_result), runner_result)
    ELSE ErrorResult("not run")

\* a SandboxResult with the status test_node line 266 maps to PASSED
SuccessResult(d) ==
    [status |-> "SUCCESS", language |-> detect_language(d), errors |-> <<>>,
     raw_logs |-> "test output", runner_exit |-> NoCount, logs |-> Unset]

\* TestRunnerAgent.run_tests: hands the executor's SandboxResult to the caller
run_tests(result) == result

\* the results one TEST step can receive
TestResults(d) ==
    {run_tests(run_tests_in_sandbox(TRUE, universal_runner(d, run))) :
        run \in RunnerRuns}
    \cup {run_tests(run_tests_in_sandbox(FALSE, NoResult))}
    \cup {run_tests(SuccessResult(d))}

\* a status that is neither SUCCESS nor FAILED counts as a pass
test_status_of_other_passes(raw_status) ==
    IF raw_status = "FAILED" THEN "FAILED" ELSE "PASSED"

\* test_node, lines 265-271
test_status_of(raw_status) ==
    IF raw_status = "SUCCESS" THEN "PASSED"
    ELSE IF raw_status = "FAILED" THEN "FAILED"
    ELSE "ERROR"

\* test_node, lines 275-280: the error record a failing result leaves
error_of(r) ==
    IF r.errors # <<>>
    THEN [file |-> r.errors[1].file, line |-> r.errors[1].line,
          type |-> Unset, desc |-> Unset, raw_logs |-> Get(r.raw_logs, "")]
    ELSE [EmptyError EXCEPT !.raw_logs = Get(r.raw_logs, "")]

TestResultLine(status) ==
    CASE status = "PASSED" -> "Test Result: PASSED"
      [] status = "FAILED" -> "Test Result: FAILED"
      [] OTHER             -> "Test Result: ERROR"

\* the budget test is off by one
check_retry_off_by_one(status, iter, max_iter) ==
    IF status = "PASSED" THEN "create_pr"
    ELSE IF iter > max_iter THEN "create_pr"
    ELSE "analyze"

check_retry(status, iter, max_iter) ==
    IF status = "PASSED" THEN "create_pr"
    ELSE IF iter >= max_iter THEN "create_pr"
    ELSE "analyze"

test_node ==
    /\ pc = "test"
    /\ IF branch_name = Unset
       THEN \* line 253: state["branch_name"] raises KeyError
            /\ logs' = logs \cup {"Running Universal Tests"}
            /\ Raise("test")
            /\ UNCHANGED <<res, language_detected, test_status, current_error,
                           classified>>
       ELSE \E r \in TestResults(disk) :
            LET status == test_status_of(r.status) IN
            /\ res' = Seen(r)
            /\ classified' = NoClassification
            /\ language_detected' =
                  IF r.language # Unset THEN r.language ELSE language_detected
            /\ test_status' = status
            /\ current_error' =
                  IF status \in {"FAILED", "ERROR"} THEN error_of(r)
                  ELSE current_error
            /\ logs' = logs \cup
                  ({"Running Universal Tests", TestResultLine(status)} \cup
                   IF r.language # Unset THEN {"Language Detected"} ELSE {})
            /\ Step("test", check_retry(status, iteration, max_iterations))
    /\ UNCHANGED <<token, repo_path, branch_name, iteration, max_iterations,
                   fixes_applied, docker_exists, docker_retry_count,
                   docker_build_logs, docker_image_tag, disk, runtime,
                   commit_outcome>>

(* ------------------------------ ANALYZE ------------------------------- *)

\* Python truthiness of err.get("file") / err.get("line")
HasFile(e) == e.file \notin {Unset, ""}
HasLine(e) == e.line \notin {NoLine, 0}

MissingScriptLog == "npm ERR! Missing script: test"

\* what the generative service answers to analyze_logs: a JSON object with
\* some of the keys, JSON that is not an object, or text that does not parse
LLMAnswers ==
    { [kind |-> "dict", file |-> "src/app.py", line |-> 42, type |-> "LOGIC",
       desc |-> "off by one"],
      [kind |-> "dict", file |-> "app.py", line |-> 42, type |-> "LOGIC",
       desc |-> "off by one"],
      [kind |-> "dict", file |-> Unset, line |-> NoLine, type |-> Unset,
       desc |-> Unset],
      [kind |-> "list", file |-> Unset, line |-> NoLine, type |-> Unset,
       desc |-> Unset],
      [kind |-> "unparsable", file |-> Unset, line |-> NoLine, type |-> Unset,
       desc |-> Unset] }

\* the parse failure is handed on
analyze_logs_propagates(answer) == answer

\* BugAnalyzerAgent.analyze_logs, lines 49-67
analyze_logs(answer) ==
    IF answer.kind = "unparsable"
    THEN [kind |-> "dict", file |-> "unknown", line |-> 0, type |-> "LOGIC",
          desc |-> "Analysis failed"]
    ELSE answer

\* dict.update: the keys the analysis carries replace those of the record
Update(e, a) ==
    [file     |-> IF a.file # Unset THEN a.file ELSE e.file,
     line     |-> IF a.line # NoLine THEN a.line ELSE e.line,
     type     |-> IF a.type # Unset THEN a.type ELSE e.type,
     desc     |-> IF a.desc # Unset THEN a.desc ELSE e.desc,
     raw_logs |-> e.raw_logs]

NodeEntryPoints ==
    <<"index.js", "server.js", "app.js", "main.js", "src/index.js",
      "src/server.js">>
PythonEntryPoints == <<"main.py", "app.py", "run.py", "server.py", "manage.py">>

\* analyze_node, lines 314-320
common_files(d, lang) ==
    IF lang = "node" \/ Exists(d, "package.json") THEN NodeEntryPoints
    ELSE IF lang = "python" \/ Exists(d, "requirements.txt")
    THEN PythonEntryPoints
    ELSE <<>>

\* the first listed name, whether it exists or not
guessed_file_unchecked(d, names) ==
    IF names # <<>> THEN names[1] ELSE Unset

\* analyze_node, lines 322-325: the first listed name that exists, or Unset
guessed_file(d, names) ==
    IF \E i \in 1..Len(names) : Exists(d, names[i])
    THEN names[CHOOSE i \in 1..Len(names) :
                  /\ Exists(d, names[i])
                  /\ \A j \in 1..(i - 1) : ~Exists(d, names[j])]
    ELSE Unset

\* analyze_node, line 286: the record is taken as it is
fast_path(err) ==
    Get(err.type, "UNKNOWN") # "UNKNOWN" /\ HasFile(err) /\ HasLine(err)

\* the phrase is never found
missing_script_never(text) == FALSE

\* analyze_node, line 294: the logs hold one of the two phrases
missing_script(text) == text = MissingScriptLog

analyze_node ==
    /\ pc = "analyze"
    /\ LET err == current_error IN
       IF fast_path(err)
       THEN \* lines 286-288
            /\ logs' = logs \cup {"Regex Detected error"}
            /\ classified' = [NoClassification EXCEPT !.by = "fast path"]
            /\ UNCHANGED current_error
            /\ Step("analyze", "fix")
       ELSE IF missing_script(Get(err.raw_logs, ""))
       THEN \* lines 294-303
            /\ logs' = logs \cup {"Analyzing failure logs with LLM...",
                                  "Detected missing test script."}
            /\ classified' = [NoClassification EXCEPT !.by = "rule"]
            /\ current_error' =
                  [err EXCEPT !.file = "package.json", !.line = 0,
                              !.type = "CONFIG",
                              !.desc = "The test script is missing"]
            /\ Step("analyze", "fix")
       ELSE \E answer \in LLMAnswers :
            LET analysis == analyze_logs(answer)
                guess == guessed_file(disk,
                            common_files(disk, Get(language_detected, "")))
                fallback == analysis.file \in {Unset, "unknown", ""}
            IN  /\ classified' = [by |-> "service", kind |-> answer.kind,
                                  file |-> analysis.file,
                                  line |-> analysis.line,
                                  type |-> analysis.type,
                                  desc |-> analysis.desc]
                /\ IF analysis.kind # "dict"
                   THEN \* line 309: analysis.get on a value that is no dict
                        /\ logs' = logs \cup
                                     {"Analyzing failure logs with LLM..."}
                        /\ UNCHANGED current_error
                        /\ Raise("analyze")
                   ELSE IF fallback /\ guess # Unset /\ analysis.desc = Unset
                   THEN \* line 330: analysis["description"] += ... , KeyError
                        /\ logs' = logs \cup
                                     {"Analyzing failure logs with LLM..."}
                        /\ UNCHANGED current_error
                        /\ Raise("analyze")
                   ELSE IF fallback /\ guess # Unset
                   THEN /\ logs' = logs \cup
                                     {"Analyzing failure logs with LLM...",
                                      "verification fallback",
                                      "LLM Detected error"}
                        /\ current_error' =
                              Update(err, [analysis EXCEPT
                                 !.file = guess, !.line = 1,
                                 !.desc = "auto-detected entry point"])
                        /\ Step("analyze", "fix")
                   ELSE /\ logs' = logs \cup
                                     {"Analyzing failure logs with LLM...",
                                      "LLM Detected error"}
                        /\ current_error' = Update(err, analysis)
                        /\ Step("analyze", "fix")
    /\ UNCHANGED <<token, repo_path, branch_name, iteration, max_iterations,
                   test_status, fixes_applied, language_detected,
                   docker_exists, docker_retry_count, docker_build_logs,
                   docker_image_tag, disk, res, runtime, commit_outcome>>

(* -------------------------------- FIX --------------------------------- *)

\* the code bodies the generative service returns for a fix; the text
\* _chat_completion returns when the call fails is one of them
ErrorText == "Error generating response: timeout"
ShortBodies == {"", "pass"}
FixBodies == {"", "pass", ErrorText, "patched code"}

\* the minimum-size test is left out
generate_fix_without_minimum(file_content, body) == body

\* FixGeneratorAgent.generate_fix, lines 76-81: the cleaned body, or the
\* original when the body is empty or shorter than 10 characters
generate_fix(file_content, body) ==
    IF body \in ShortBodies THEN file_content ELSE body

\* the existence test is left out
file_in_workspace_unchecked(d, file_rel) == TRUE

\* fix_node, lines 346-347: the named file exists in the checkout
file_in_workspace(d, file_rel) == Exists(d, file_rel)

fix_node ==
    /\ pc = "fix"
    /\ LET err == current_error
           file_rel == err.file
       IN  IF ~HasFile(err)
           THEN \* lines 341-344
                /\ logs' = logs \cup {"Could not identify file to fix."}
                /\ iteration' = iteration + 1
                /\ UNCHANGED <<disk, fixes_applied>>
           ELSE IF ~file_in_workspace(disk, file_rel)
           THEN \* lines 347-350
                /\ logs' = logs \cup {"File not found in workspace."}
                /\ iteration' = iteration + 1
                /\ UNCHANGED <<disk, fixes_applied>>
           ELSE \E body \in FixBodies \cup {disk[file_rel]} :
                LET fixed_content == generate_fix(disk[file_rel], body) IN
                IF fixed_content = disk[file_rel]
                THEN /\ logs' = logs \cup {"LLM could not generate a fix."}
                     /\ UNCHANGED <<disk, fixes_applied, iteration>>
                ELSE /\ disk' = [disk EXCEPT ![file_rel] = fixed_content]
                     /\ fixes_applied' = Append(fixes_applied,
                           [file |-> file_rel,
                            bug_type |-> Get(err.type, "General"),
                            line_number |-> GetCount(err.line, 0),
                            status |-> "Applied"])
                     /\ logs' = logs \cup {"Applied fix locally"}
                     /\ UNCHANGED iteration
    /\ Step("fix", "commit")
    /\ UNCHANGED <<token, repo_path, branch_name, max_iterations, test_status,
                   current_error, language_detected, docker_exists,
                   docker_retry_count, docker_build_logs, docker_image_tag,
                   res, runtime,
                   commit_outcome, classified>>

(* ------------------------------- COMMIT ------------------------------- *)

\* the status of the last record is not looked at
commit_skipped_only_when_empty(fixes) == fixes = <<>>

\* every commit is skipped
commit_skipped_always(fixes) == TRUE

\* commit_node, lines 384 and 391: nothing to commit
commit_skipped(fixes) ==
    \/ fixes = <<>>
    \/ fixes[Len(fixes)].status # "Applied"

\* a failed commit leaves the record as it was
commit_status_keeps_applied(committed) ==
    IF committed THEN "Fixed Locally" ELSE "Applied"

\* commit_node, lines 411 and 414: the status the commit leaves on the record
commit_status(committed) ==
    IF committed THEN "Fixed Locally" ELSE "Failed Commit"

commit_node ==
    /\ pc = "commit"
    /\ IF commit_skipped(fixes_applied)
       THEN \* lines 384-386 and 391-394
            /\ logs' = logs \cup
                  ({"--- Committing and Pushing Fixes ---"} \cup
                   IF fixes_applied = <<>> THEN {}
                   ELSE {"Skipping commit: No fix was applied"})
            /\ commit_outcome' = "skipped"
            /\ UNCHANGED fixes_applied
       ELSE IF token = ""
       THEN \* lines 417-419: no git call
            /\ logs' = logs \cup {"--- Committing and Pushing Fixes ---",
                                  "Commit applied locally. No GITHUB_TOKEN"}
            /\ commit_outcome' = "no token"
            /\ fixes_applied' =
                  [fixes_applied EXCEPT ![Len(fixes_applied)].status =
                      "Fixed Locally"]
       ELSE \E committed \in BOOLEAN :
            \* lines 406-416: git add, git commit
            /\ logs' = logs \cup {"--- Committing and Pushing Fixes ---",
                                  IF committed THEN "Committed changes locally."
                                  ELSE "Git commit failed"}
            /\ commit_outcome' = IF committed THEN "committed" ELSE "failed"
            /\ fixes_applied' =
                  [fixes_applied EXCEPT ![Len(fixes_applied)].status =
                      commit_status(committed)]
    /\ iteration' = iteration + 1
    /\ Step("commit", "test")
    /\ UNCHANGED <<token, repo_path, branch_name, max_iterations, test_status,
                   current_error, language_detected, docker_exists,
                   docker_retry_count, docker_build_logs, docker_image_tag,
                   disk, res, runtime, classified>>

(* ------------------------------ CREATE_PR ----------------------------- *)

pr_node ==
    /\ pc = "create_pr"
    /\ \E pushed \in BOOLEAN, created \in BOOLEAN :
        logs' = logs \cup
           ({"Pushing changes and Creating Pull Request..."} \cup
            (IF token = "" THEN {}
             ELSE IF pushed
             THEN {"Pushing all local commits to remote...", "Push Successful."}
             ELSE {"Pushing all local commits to remote...",
                   "Final Push failed"}) \cup
            (IF created THEN {"PR Created"} ELSE {"PR Creation Note"}))
    /\ Step("create_pr", "END")
    /\ UNCHANGED <<token, repo_path, branch_name, iteration, max_iterations,
                   test_status, fixes_applied, current_error,
                   language_detected, docker_exists, docker_retry_count,
                   docker_build_logs, docker_image_tag, disk, res, runtime,
                   commit_outcome, classified>>

(* ------------------------------ the graph ----------------------------- *)

Next ==
    \/ clone_node
    \/ analyze_project_node
    \/ check_dockerfile_node
    \/ generate_dockerfile_node
    \/ validate_docker_node
    \/ fix_dockerfile_node
    \/ test_node
    \/ analyze_node
    \/ fix_node
    \/ commit_node
    \/ pr_node

Spec == Init /\ [][Next]_vars

\* every node returns once its external calls have returned
FairSpec == Spec /\ WF_vars(Next)

(* ------------------------- the sandbox executor ----------------------- *)

NotAvailableLog == "Docker not available and AI_AGENT_ALLOW_LOCAL_RUN is False."
ExceptionLog == "str(e)"
LocalFailedLog == "Local Run Failed"

\* run_tests_locally, lines 190-193 and 231: str() of the CalledProcessError
\* of the clone holds the command line, and with a token the command line
\* holds https://<token>@<host>/...
LocalCloneFailedLog(tok) ==
    IF tok = ""
    THEN "Local Run Failed: Command 'git clone https://github.com/o/r' returned non-zero exit status 128."
    ELSE "Local Run Failed: Command 'git clone https://ghp_secret@github.com/o/r' returned non-zero exit status 128."

\* the log texts that hold the token "ghp_secret"
TokenTexts == {LocalCloneFailedLog("ghp_secret")}

\* tok in text
contains(text, tok) == tok = "ghp_secret" /\ text \in TokenTexts

\* text.replace(token, "***TOKEN***")
mask(text, tok) ==
    IF contains(text, tok)
    THEN "Local Run Failed: Command 'git clone https://***TOKEN***@github.com/o/r' returned non-zero exit status 128."
    ELSE text

\* the checkout CLONE made of a repository
Checkout(contents) ==
    [f \in Paths |-> IF f \in contents THEN OriginalCode ELSE Unset]

\* the content FIX can have left in a file of the workspace
WorkspaceContents == {generate_fix(OriginalCode, body) : body \in FixBodies}

\* the content of that file on the remote: commit_node commits locally and
\* only pr_node pushes, so a clone of repo_url made during the test-fix loop
\* holds what CLONE fetched
RemoteContent == OriginalCode

\* runner executions whose command output holds a brace
BraceRuns ==
    [install_code : {0}, test_code : {1}, run_code : {1},
     candidates : {<<>>, <<[file |-> "src/app.py", line |-> 42]>>},
     raw_logs : {BraceLog},
     exception : {FALSE}]

\* what the script prints before the runner's line, what the runner prints,
\* and what is written to stderr
RunnerOutputs ==
    [preceding : {<<>>, <<"text">>, <<"text{">>, <<"{", "text", "}">>},
     result : {universal_runner(Checkout({"requirements.txt", "src/app.py"}),
                                run) : run \in RunnerRuns \cup BraceRuns},
     stderr : {<<>>, <<"text">>}]

\* a call of run_tests_in_sandbox with its arguments and environment
ExecInit ==
    /\ GraphInit
    /\ max_iterations = MaxMaxIterations
    /\ exec_pc = "call"
    /\ client \in BOOLEAN
    /\ allow_local \in BOOLEAN
    /\ mount_path \in BOOLEAN
    /\ image_tag \in {DefaultImageTag, BuiltImageTag}
    /\ workspace \in WorkspaceContents
    /\ runner_out \in RunnerOutputs
    /\ container = "none"
    /\ local_run = FALSE
    /\ subprocess_started = FALSE
    /\ tested = Unset
    /\ exec_logs = Unset
    /\ exec_result = Unset
    /\ RunnerIdle

\* lines 46-50 take the local path whatever the override says
unavailable_path_always_local(allowed) == "local"

\* lines 46-50: what a call without a Docker client does
unavailable_path(allowed) == IF allowed THEN "local" ELSE "refuse"

\* lines 46-60: the client test and the image lookup
exec_enter ==
    /\ exec_pc = "call"
    /\ IF ~client
       THEN IF unavailable_path(allow_local) = "local"
            THEN /\ local_run' = TRUE
                 /\ exec_pc' = "local_clone"
                 /\ UNCHANGED exec_result
            ELSE /\ exec_result' = ErrorResult(NotAvailableLog)
                 /\ exec_pc' = "returned"
                 /\ UNCHANGED local_run
       ELSE \E image \in {"found", "built", "missing"} :
            /\ image = "built" => image_tag = DefaultImageTag
            /\ IF image = "missing"
               THEN /\ exec_result' = ErrorResult(
                          IF image_tag = DefaultImageTag
                          THEN "Failed to build sandbox image."
                          ELSE "Custom image not found.")
                    /\ exec_pc' = "returned"
               ELSE /\ exec_pc' = "run"
                    /\ UNCHANGED exec_result
            /\ UNCHANGED local_run
    /\ UNCHANGED <<graph_vars, runner_vars, token, exec_args, container,
                   subprocess_started, tested, exec_logs>>

\* lines 62-139 and 169-173: containers.run; when it raises there is no
\* container to clean up
exec_run ==
    /\ exec_pc = "run"
    /\ \E started \in BOOLEAN :
        IF started
        THEN /\ container' = "running"
             /\ exec_pc' = "wait"
             /\ UNCHANGED exec_result
        ELSE /\ exec_result' = ErrorResult(ExceptionLog)
             /\ exec_pc' = "returned"
             /\ UNCHANGED container
    /\ UNCHANGED <<graph_vars, runner_vars, token, exec_args, local_run,
                   subprocess_started, tested, exec_logs>>

\* line 141: container.wait() returns once the container has exited, or
\* raises with the container still running or already exited.  The runner
\* ran on the bind mount when mount_path is given, on a clone of repo_url
\* otherwise.
exec_wait ==
    /\ exec_pc = "wait"
    /\ \E outcome \in {"exited", "raised, running", "raised, exited"} :
        /\ container' = IF outcome = "raised, running" THEN "running"
                        ELSE "exited"
        /\ tested' = IF outcome = "raised, running" THEN tested
                     ELSE IF mount_path THEN workspace ELSE RemoteContent
        /\ exec_pc' = IF outcome = "exited" THEN "logs" ELSE "except"
    /\ UNCHANGED <<graph_vars, runner_vars, token, exec_args, local_run,
                   subprocess_started, exec_logs, exec_result>>

\* line 142: container.logs()
exec_read_logs ==
    /\ exec_pc = "logs"
    /\ \E read \in BOOLEAN :
        IF read
        THEN /\ exec_logs' = runner_out.preceding \o dumps(runner_out.result)
             /\ exec_pc' = "remove"
        ELSE /\ exec_pc' = "except"
             /\ UNCHANGED exec_logs
    /\ UNCHANGED <<graph_vars, runner_vars, token, exec_args, container, local_run,
                   subprocess_started, tested, exec_result>>

\* line 143: container.remove()
exec_remove ==
    /\ exec_pc = "remove"
    /\ \E removed \in BOOLEAN :
        IF removed
        THEN /\ container' = "removed"
             /\ exec_pc' = "parse"
        ELSE /\ exec_pc' = "except"
             /\ UNCHANGED container
    /\ UNCHANGED <<graph_vars, runner_vars, token, exec_args, local_run,
                   subprocess_started, tested, exec_logs, exec_result>>

\* lines 145-167 and 216-228: the result is cut out of the captured output
exec_parse ==
    /\ exec_pc = "parse"
    /\ LET result == extract(exec_logs, runner_out.result) IN
       exec_result' =
          \* lines 160-161: the container path masks raw_logs of a parsed
          \* result; run_tests_locally (lines 216-223) does not
          IF ~local_run /\ result.status # "ERROR" /\ token # ""
          THEN [result EXCEPT !.raw_logs = mask(@, token)]
          ELSE result
    /\ exec_pc' = "returned"
    /\ UNCHANGED <<graph_vars, runner_vars, token, exec_args, container, local_run,
                   subprocess_started, tested, exec_logs>>

\* lines 169-173: try: container.kill(); container.remove() / except: pass.
\* kill() raises on a container that is not running, and remove() is then
\* not reached.
exec_except ==
    /\ exec_pc = "except"
    /\ IF container = "running"
       THEN \E killed \in BOOLEAN, removed \in BOOLEAN :
            container' = IF killed /\ removed THEN "removed"
                         ELSE IF killed THEN "exited"
                         ELSE "running"
       ELSE UNCHANGED container
    /\ exec_result' = ErrorResult(ExceptionLog)
    /\ exec_pc' = "returned"
    /\ UNCHANGED <<graph_vars, runner_vars, token, exec_args, local_run,
                   subprocess_started, tested, exec_logs>>

\* run_tests_locally, lines 179-205: a fresh clone of repo_url under
\* workspace/run_<id>/repo, checkout of the branch, copy of the runner
exec_local_clone ==
    /\ exec_pc = "local_clone"
    /\ \E cloned \in BOOLEAN :
        IF cloned
        THEN /\ exec_pc' = "local_run"
             /\ UNCHANGED exec_result
        ELSE /\ exec_result' = ErrorResult(LocalCloneFailedLog(token))
             /\ exec_pc' = "returned"
    /\ UNCHANGED <<graph_vars, runner_vars, token, exec_args, container, local_run,
                   subprocess_started, tested, exec_logs>>

\* run_tests_locally, lines 207-214 and 230-231: the runner as a subprocess
\* in the fresh clone, with a timeout of 300 seconds
exec_local_run ==
    /\ exec_pc = "local_run"
    /\ subprocess_started' = TRUE
    /\ tested' = RemoteContent
    /\ \E finished \in BOOLEAN :
        IF finished
        THEN /\ exec_logs' = runner_out.preceding
                                \o dumps(runner_out.result)
                                \o runner_out.stderr
             /\ exec_pc' = "parse"
             /\ UNCHANGED exec_result
        ELSE /\ exec_result' = ErrorResult(LocalFailedLog)
             /\ exec_pc' = "returned"
             /\ UNCHANGED exec_logs
    /\ UNCHANGED <<graph_vars, runner_vars, token, exec_args, container, local_run>>

ExecNext ==
    \/ exec_enter
    \/ exec_run
    \/ exec_wait
    \/ exec_read_logs
    \/ exec_remove
    \/ exec_parse
    \/ exec_except
    \/ exec_local_clone
    \/ exec_local_run

ExecSpec == ExecInit /\ [][ExecNext]_vars

(* ----------------------------- the runner ----------------------------- *)

\* largest number of files in a directory the runner is started in
MaxFiles == 2

\* the keys of LANGUAGE_CONFIG
Languages ==
    {"python", "node", "java_maven", "java_gradle", "go", "csharp", "cpp",
     "rust", "php", "ruby"}

\* LANGUAGE_CONFIG: the first entry of each language's "files"
PriorityMarker ==
    [l \in Languages |->
        CASE l = "python"      -> "requirements.txt"
          [] l = "node"        -> "package.json"
          [] l = "java_maven"  -> "pom.xml"
          [] l = "java_gradle" -> "build.gradle"
          [] l = "go"          -> "go.mod"
          [] l = "csharp"      -> "app.csproj"
          [] l = "cpp"         -> "Makefile"
          [] l = "rust"        -> "Cargo.toml"
          [] l = "php"         -> "composer.json"
          [] l = "ruby"        -> "Gemfile"]

RunnerFiles == {PriorityMarker[l] : l \in Languages} \cup {"main.py", "index.js"}

\* the directory that holds the files of S
Directory(S) == [f \in RunnerFiles |-> IF f \in S THEN OriginalCode ELSE Unset]

FilesOf(d) == {f \in DOMAIN d : d[f] # Unset}

\* the directories a runner is started in
RunnerDirectories ==
    {Directory(S) : S \in
        {T \in SUBSET RunnerFiles :
            /\ Cardinality(T) <= MaxFiles
            /\ Cardinality({scan_language(extension(f)) : f \in T}
                              \ {"unknown"}) <= 1}}

\* exit codes of a command: success, failure, killed by `timeout`
ExitCodes == {0, 1, TimeoutExit}

\* extract_errors: no match, or one match; only python and node matches
\* get their file and line filled in (lines 137-142)
Candidates(lang) ==
    {<<>>,
     <<IF lang \in {"python", "node"}
       THEN [file |-> "src/app.py", line |-> 42]
       ELSE [file |-> "", line |-> 0]>>}

RunnerInit ==
    /\ GraphInit
    /\ max_iterations = MaxMaxIterations
    /\ ExecIdle
    /\ run_pc = "start"
    /\ cwd \in RunnerDirectories
    /\ RESULTS = InitialResults
    /\ install_exit = NoCount
    /\ test_exit = NoCount
    /\ run_exit = NoCount
    /\ commands = <<>>
    /\ stdout = <<>>

\* main, lines 151-158: detect the language; unknown ends the run
runner_start ==
    /\ run_pc = "start"
    /\ LET lang == detect_language(cwd)
           results == [RESULTS EXCEPT !.language = lang]
       IN  /\ RESULTS' = results
           /\ IF lang = "unknown"
              THEN /\ stdout' = Append(stdout, results)
                   /\ run_pc' = "done"
              ELSE /\ run_pc' = IF HasInstall(cwd, lang) THEN "install"
                                ELSE "test"
                   /\ UNCHANGED stdout
    /\ UNCHANGED <<graph_vars, token, exec_vars, cwd, install_exit,
                   test_exit, run_exit, commands>>

\* an install command that fails does not end the run
install_never_stops(code) == FALSE

\* main, line 164: the install command failed
install_stops(code) == code # 0

\* main, lines 161-168: the install command (no language has two)
runner_install ==
    /\ run_pc = "install"
    /\ \E code \in ExitCodes :
        LET logged == [RESULTS EXCEPT !.raw_logs = Append(@, "[INSTALL]")]
            failed == [logged EXCEPT !.status = "INSTALL_FAILED",
                                     !.exit_code = code]
        IN  /\ install_exit' = code
            /\ commands' = Append(commands, "install")
            /\ IF install_stops(code)
               THEN /\ RESULTS' = failed
                    /\ stdout' = Append(stdout, failed)
                    /\ run_pc' = "done"
               ELSE /\ RESULTS' = logged
                    /\ run_pc' = "test"
                    /\ UNCHANGED stdout
    /\ UNCHANGED <<graph_vars, token, exec_vars, cwd, test_exit, run_exit>>

\* main, lines 178-195: the test command (every language has one); the run
\* command follows when the test failed and the language has one
runner_test ==
    /\ run_pc = "test"
    /\ \E code \in ExitCodes :
        /\ test_exit' = code
        /\ commands' = Append(commands, "test")
        /\ RESULTS' = [RESULTS EXCEPT !.raw_logs = Append(@, "[TEST]")]
        /\ run_pc' = IF code # 0 /\ HasRun(RESULTS.language) THEN "run"
                     ELSE "report"
    /\ UNCHANGED <<graph_vars, token, exec_vars, cwd, install_exit, run_exit,
                   stdout>>

\* main, lines 196-210: the run command
runner_run ==
    /\ run_pc = "run"
    /\ \E code \in ExitCodes :
        /\ run_exit' = code
        /\ commands' = Append(commands, "run")
        /\ RESULTS' = [RESULTS EXCEPT !.raw_logs =
                          @ \o <<"--- Falling back to Runtime Check ---",
                                 "[RUN]">>]
        /\ run_pc' = "report"
    /\ UNCHANGED <<graph_vars, token, exec_vars, cwd, install_exit,
                   test_exit, stdout>>

\* main, lines 212-218: exit code, status, error candidates, the one print
runner_report ==
    /\ run_pc = "report"
    /\ LET code == final_code(RESULTS.language, test_exit,
                              IF run_exit = NoCount THEN 0 ELSE run_exit)
       IN  \E errs \in Candidates(RESULTS.language) :
           LET results == [RESULTS EXCEPT
                              !.exit_code = code,
                              !.status = runner_status(code),
                              !.errors = IF code # 0 THEN errs ELSE <<>>]
           IN  /\ RESULTS' = results
               /\ stdout' = Append(stdout, results)
               /\ run_pc' = "done"
    /\ UNCHANGED <<graph_vars, token, exec_vars, cwd, install_exit,
                   test_exit, run_exit, commands>>

\* the handler prints nothing
except_output_silent(results) == <<>>

\* main, line 223: what the handler prints
except_output(results) == <<results>>

\* main, lines 220-223: an exception raised inside the try block
runner_exception ==
    /\ run_pc \in {"start", "install", "test", "run", "report"}
    /\ LET results == [RESULTS EXCEPT !.status = "SYSTEM_ERROR",
                                      !.raw_logs = Append(@, "str(e)")]
       IN  /\ RESULTS' = results
           /\ stdout' = stdout \o except_output(results)
    /\ run_pc' = "done"
    /\ UNCHANGED <<graph_vars, token, exec_vars, cwd, install_exit,
                   test_exit, run_exit, commands>>

RunnerNext ==
    \/ runner_start
    \/ runner_install
    \/ runner_test
    \/ runner_run
    \/ runner_report
    \/ runner_exception

RunnerSpec == RunnerInit /\ [][RunnerNext]_vars

(* ------------------------- TEST into ANALYZE -------------------------- *)

\* what the runner prints in a checkout of the given repository
AnalyzeOutputs(contents) ==
    [preceding : {<<>>},
     result : {universal_runner(Checkout(contents), run) :
                  run \in RunnerRuns \cup BraceRuns},
     stderr : {<<>>}]

\* the session as test_node (lines 238-282) leaves it for analyze_node:
\* the runner printed out.result, the executor returned r, and r failed;
\* file_list is absent, or the inventory of the checkout when the caller
\* hands one in (verify_file_detection.py line 52)
AnalyzeInit ==
    \E contents \in RepoContents :
    \E out \in AnalyzeOutputs(contents) :
    LET r == run_tests(run_tests_in_sandbox(TRUE, out.result)) IN
    /\ test_status_of(r.status) \in {"FAILED", "ERROR"}
    /\ pc = "analyze"
    /\ token \in {"", "ghp_secret"}
    /\ repo_path = RepoDir
    /\ branch_name = FixBranch
    /\ iteration = 0
    /\ max_iterations = MaxMaxIterations
    /\ test_status = test_status_of(r.status)
    /\ logs = {"Running Universal Tests", TestResultLine(test_status_of(r.status)),
               "Language Detected"}
    /\ fixes_applied = <<>>
    /\ current_error = error_of(r)
    /\ language_detected = r.language
    /\ docker_exists = ("Dockerfile" \in contents)
    /\ docker_retry_count = 0
    /\ docker_build_logs = ""
    /\ docker_image_tag = DefaultImageTag
    /\ disk = Checkout(contents)
    /\ res = Seen(r)
    /\ runtime = Unset
    /\ visits = [n \in Nodes |-> IF n = "test" THEN 1 ELSE 0]
    /\ prev = "test"
    /\ commit_outcome = Unset
    /\ classified = NoClassification
    /\ file_list \in {{}, contents}
    /\ exec_pc = "returned"
    /\ client = TRUE
    /\ allow_local = FALSE
    /\ mount_path = TRUE
    /\ image_tag = DefaultImageTag
    /\ workspace = OriginalCode
    /\ runner_out = out
    /\ container = "removed"
    /\ local_run = FALSE
    /\ subprocess_started = FALSE
    /\ tested = OriginalCode
    /\ exec_logs = Unset
    /\ exec_result = r
    /\ RunnerIdle

AnalyzeNext == analyze_node \/ fix_node

AnalyzeSpec == AnalyzeInit /\ [][AnalyzeNext]_vars

(* ------------------------------ properties ---------------------------- *)

AbortLine == "Docker build failed after 3 retries. Aborting."
InTestFixLoop == pc \in {"test", "analyze", "fix", "commit"}
SessionOver == pc \in {"END", "crashed"}

\* C1: with max_iterations >= 1, iteration <= max_iterations at every step
\* of the test-fix loop and when the loop has routed to CREATE_PR.
C1_IterationWithinBudget ==
    (max_iterations >= 1 /\ (InTestFixLoop \/ pc = "create_pr"))
        => iteration <= max_iterations

\* C2: the step after TEST is CREATE_PR when the tests passed or the budget
\* is used up, and ANALYZE otherwise.
C2_TestSuccessor ==
    [][pc = "test" =>
          pc' = IF test_status' = "PASSED" \/ iteration' >= max_iterations'
                THEN "create_pr" ELSE "analyze"]_vars

C2_Witness ==
    /\ prev = "test"
    /\ pc = "create_pr"
    /\ test_status # "PASSED"
    /\ visits["test"] > 1
    /\ iteration >= max_iterations

\* C3: with max_iterations = 3 and no passing test run, TEST has run exactly
\* three times when the loop routes to CREATE_PR.
C3_ExactlyThreeTests ==
    (max_iterations = 3 /\ prev = "test" /\ pc = "create_pr"
        /\ test_status # "PASSED")
        => visits["test"] = 3

\* C4: the session never stops short of END: as long as END is not reached
\* there is a node to run next.
C4_AlwaysANextStep == pc \in Nodes \cup {"END"}

\* C5: when a session is over, CREATE_PR has run exactly once and was the
\* last step.
C5_PrExactlyOnce ==
    SessionOver => (visits["create_pr"] = 1 /\ prev = "create_pr")

\* C6: docker_retry_count never exceeds 3.
C6_RetryCountAtMostThree == docker_retry_count <= DockerRetryCap

C6_Witness ==
    /\ docker_retry_count = DockerRetryCap
    /\ prev = "validate_docker"
    /\ pc = "create_pr"

\* C7: when the Dockerfile loop gives up, CREATE_PR sees test_status = ERROR
\* and the exhaustion line in logs, and no step of the test-fix loop has run.
C7_AbortSetsError ==
    (prev = "validate_docker" /\ pc = "create_pr")
        => /\ test_status = "ERROR"
           /\ AbortLine \in logs
           /\ \A n \in {"test", "analyze", "fix", "commit"} : visits[n] = 0

\* C8: when the third validation is the first that succeeds, the retry
\* count is 2, the next step is TEST and the session never takes the abort
\* branch.
ThirdValidationSucceeded ==
    visits["validate_docker"] = 3 /\ docker_build_logs = BuiltLog

C8_ThirdBuildProceeds ==
    ThirdValidationSucceeded
        => /\ docker_retry_count = 2
           /\ AbortLine \notin logs
           /\ prev = "validate_docker" => pc = "test"

C8_Witness ==
    /\ ThirdValidationSucceeded
    /\ prev = "validate_docker"
    /\ pc = "test"
    /\ visits["fix_dockerfile"] = 2

\* C9: a validation that finds the container runtime unavailable routes to
\* TEST, with no Dockerfile repair and no retry consumed.
C9_UnavailableSkipsBuild ==
    (prev = "validate_docker" /\ runtime = "unavailable")
        => /\ pc = "test"
           /\ visits["fix_dockerfile"] = 0
           /\ docker_retry_count = 0

\* C10: when the runner's last phase exited 0, TEST records PASSED and the
\* session goes to CREATE_PR.
C10_RunnerPassIsPassed ==
    (prev = "test" /\ res.runner_exit = 0)
        => (test_status = "PASSED" /\ pc = "create_pr")

LastFix == fixes_applied[Len(fixes_applied)]
LastFixNotApplied == fixes_applied = <<>> \/ LastFix.status # "Applied"

\* C11: a FIX step either leaves every file and fixes_applied as they were,
\* or writes one file with content that differs from what it held and is
\* not below the minimum size, and appends one record with status Applied
\* for that file.
C11_AppliedOnlyOnRealChange ==
    [][pc = "fix" =>
          \/ disk' = disk /\ fixes_applied' = fixes_applied
          \/ \E f \in Paths :
                /\ disk'[f] # disk[f]
                /\ disk'[f] \notin ShortBodies
                /\ \A g \in Paths \ {f} : disk'[g] = disk[g]
                /\ Len(fixes_applied') = Len(fixes_applied) + 1
                /\ SubSeq(fixes_applied', 1, Len(fixes_applied))
                      = fixes_applied
                /\ fixes_applied'[Len(fixes_applied')].status = "Applied"
                /\ fixes_applied'[Len(fixes_applied')].file = f]_vars

C11_Witness ==
    /\ prev = "fix"
    /\ fixes_applied # <<>>
    /\ LastFix.status = "Applied"
    /\ disk[LastFix.file] \notin {OriginalCode} \cup ShortBodies

\* C12: a COMMIT step entered with no record, or with a last record whose
\* status is not Applied, makes no version-control call, leaves
\* fixes_applied as it was and adds one to iteration.
C12_NoFixNoCommit ==
    [][(pc = "commit" /\ LastFixNotApplied) =>
          /\ commit_outcome' = "skipped"
          /\ fixes_applied' = fixes_applied
          /\ iteration' = iteration + 1]_vars

C12_Witness ==
    /\ prev = "commit"
    /\ commit_outcome = "skipped"
    /\ "Committed changes locally." \in logs
    /\ fixes_applied # <<>>
    /\ LastFix.status = "Fixed Locally"

\* C13: a COMMIT step whose local commit fails marks the last record as a
\* failed commit, adds one to iteration and is followed by TEST.
C13_FailedCommitGoesOn ==
    [][(pc = "commit" /\ commit_outcome' = "failed") =>
          /\ fixes_applied'[Len(fixes_applied')].status = "Failed Commit"
          /\ SubSeq(fixes_applied', 1, Len(fixes_applied) - 1)
                = SubSeq(fixes_applied, 1, Len(fixes_applied) - 1)
          /\ iteration' = iteration + 1
          /\ pc' = "test"]_vars

C13_Witness ==
    /\ prev = "commit"
    /\ commit_outcome = "failed"
    /\ pc = "test"
    /\ LastFix.status = "Failed Commit"

\* C14: every record of fixes_applied has a status of the data model:
\* Applied, the failed-commit status, or Skipped.
C14_RecordStatusInEnum ==
    \A i \in 1..Len(fixes_applied) :
        fixes_applied[i].status \in {"Applied", "Failed Commit", "Skipped"}

\* C15: once CLONE has failed, test_status is ERROR and the session does
\* not end in an exception of a later step.
C15_CloneFailureGoesOn ==
    (visits["clone"] = 1 /\ repo_path = Unset)
        => (test_status = "ERROR" /\ pc # "crashed")

C17_UnavailableTakesOnePath ==
    ~client =>
        /\ container = "none"
        /\ allow_local => (exec_pc # "call" => local_run)
        /\ ~allow_local =>
              /\ ~local_run
              /\ ~subprocess_started
              /\ exec_pc # "call" =>
                    /\ exec_pc = "returned"
                    /\ exec_result = ErrorResult(NotAvailableLog)

C17_Witness ==
    /\ ~client
    /\ ~allow_local
    /\ exec_pc = "returned"
    /\ exec_result.status = "ERROR"

\* C18: the local subprocess runs the tests against the content the
\* session workspace holds.
C18_LocalRunTestsWorkspace ==
    (local_run /\ subprocess_started) => tested = workspace

\* C19: when the executor has returned, no container it made is left.
C19_ContainerRemoved ==
    exec_pc = "returned" => container \in {"none", "removed"}

\* C20: the extraction step returns the result the runner printed, with
\* its status and its error candidates.
C20_ExtractionReturnsResult ==
    [][exec_pc = "parse" =>
          /\ exec_result'.status = runner_out.result.status
          /\ exec_result'.errors = runner_out.result.errors]_vars

\* C21: a directory that holds exactly the priority marker of a language
\* is detected as that language, and with several markers present the
\* language of the first one in the probe order is returned.
C21_MarkerGivesLanguage ==
    RESULTS.language # InitialResults.language =>
        /\ \A l \in Languages :
              FilesOf(cwd) = {PriorityMarker[l]} => RESULTS.language = l
        /\ ({"pom.xml", "package.json"} \subseteq FilesOf(cwd)) =>
              RESULTS.language = "java_maven"

\* C22: a failed install command ends the run: status INSTALL_FAILED with
\* the command's exit code, no other command run, the logs hold the
\* install output alone, and the result is printed.
C22_InstallFailureStops ==
    install_exit \notin {NoCount, 0} =>
        /\ run_pc = "done"
        /\ RESULTS.status = "INSTALL_FAILED"
        /\ RESULTS.exit_code = install_exit
        /\ commands = <<"install">>
        /\ test_exit = NoCount
        /\ run_exit = NoCount
        /\ RESULTS.raw_logs = <<"[INSTALL]">>
        /\ stdout = <<RESULTS>>

C22_Witness ==
    /\ install_exit = 1
    /\ run_pc = "done"
    /\ RESULTS.status = "INSTALL_FAILED"

\* C23: once the run command has run, the reported status is PASSED
\* exactly when it exited 0 or 124; an install command that exits 124
\* fails the run, and a test command that exits 124 with no run command
\* after it is reported FAILED.
C23_TimeoutIsSuccessInRunOnly ==
    (run_pc = "done" /\ RESULTS.status # "SYSTEM_ERROR") =>
        /\ run_exit # NoCount =>
              /\ RESULTS.status = "PASSED" <=> run_exit \in {0, TimeoutExit}
              /\ RESULTS.status = "FAILED" <=> run_exit \notin {0, TimeoutExit}
        /\ install_exit = TimeoutExit => RESULTS.status = "INSTALL_FAILED"
        /\ (test_exit = TimeoutExit /\ run_exit = NoCount) =>
              /\ RESULTS.status = "FAILED"
              /\ RESULTS.exit_code = TimeoutExit

C23_Witness ==
    /\ run_pc = "done"
    /\ test_exit = 1
    /\ run_exit = TimeoutExit
    /\ RESULTS.status = "PASSED"
    /\ RESULTS.exit_code = 0

\* C24: a runner that has ended has printed exactly one result, the one
\* it holds, and a runner that has not ended has printed nothing; an
\* exception ends it with status SYSTEM_ERROR.
C24_ExactlyOneResult ==
    /\ run_pc = "done" => stdout = <<RESULTS>>
    /\ run_pc # "done" => stdout = <<>>
    /\ RESULTS.status \in {"PASSED", "FAILED", "INSTALL_FAILED", "SYSTEM_ERROR"}

C24_Witness ==
    /\ run_pc = "done"
    /\ RESULTS.status = "SYSTEM_ERROR"
    /\ commands = <<"install", "test">>
    /\ stdout = <<RESULTS>>

\* C25: a TEST step that receives a result with status INSTALL_FAILED,
\* FAILED, SYSTEM_ERROR or ERROR sets a test status other than PASSED,
\* leaves the iteration count as it is, and goes to ANALYZE whenever the
\* iteration count is below the budget.
C25_FailingResultsGoToAnalyze ==
    [][(/\ pc = "test"
        /\ branch_name # Unset
        /\ res'.status \in {"INSTALL_FAILED", "FAILED", "SYSTEM_ERROR", "ERROR"})
       => /\ test_status' \in {"FAILED", "ERROR"}
          /\ iteration' = iteration
          /\ iteration < max_iterations => pc' = "analyze"]_vars

C25_Witness ==
    /\ prev = "test"
    /\ res.status = "INSTALL_FAILED"
    /\ test_status = "ERROR"
    /\ iteration = 1
    /\ pc = "analyze"

\* C26: an ANALYZE step entered with a record the fast path does not take
\* and with logs that hold the missing-test-script phrase pins the error
\* to package.json, line 0, type CONFIG, and does not ask the service.
C26_MissingScriptRule ==
    [][(/\ pc = "analyze"
        /\ ~fast_path(current_error)
        /\ current_error.raw_logs = MissingScriptLog)
       => /\ current_error'.file = "package.json"
          /\ current_error'.line = 0
          /\ current_error'.type = "CONFIG"
          /\ classified'.by = "rule"
          /\ pc' = "fix"]_vars

C26_Witness ==
    /\ prev = "analyze"
    /\ classified.by = "rule"
    /\ current_error.raw_logs = MissingScriptLog
    /\ current_error.file = "package.json"
    /\ current_error.type = "CONFIG"

\* C27: an ANALYZE step entered with a typed record that has a file and a
\* line leaves it as it is and asks neither the rule nor the service; and
\* when the runner printed an error candidate with a file and a line, the
\* ANALYZE step after that test takes this path.
C27_CandidateTakesFastPath ==
    [][pc = "analyze" =>
          /\ fast_path(current_error) =>
                /\ current_error' = current_error
                /\ classified'.by = "fast path"
          /\ (/\ runner_out.result.errors # <<>>
              /\ HasFile(runner_out.result.errors[1])
              /\ HasLine(runner_out.result.errors[1]))
             => classified'.by = "fast path"]_vars

\* C28: when the service's answer does not parse, the classifier returns
\* the record file unknown, line 0, type LOGIC with the analysis-failed
\* description, and the ANALYZE step goes on to FIX.
C28_UnparsableGivesDefault ==
    [][(pc = "analyze" /\ classified'.kind = "unparsable")
       => /\ classified'.file = "unknown"
          /\ classified'.line = 0
          /\ classified'.type = "LOGIC"
          /\ classified'.desc = "Analysis failed"
          /\ pc' = "fix"]_vars

C28_Witness ==
    /\ prev = "analyze"
    /\ classified.kind = "unparsable"
    /\ classified.file = "unknown"
    /\ pc = "fix"

\* C29: when the classifier names no file and ANALYZE goes on, the file
\* of the record is the first name of the language's entry-point list
\* that exists in the workspace, with the description marked as
\* auto-detected, or, when none exists, it stays unset or unknown; a FIX
\* step entered with such a record changes no file and records no fix.
C29_GuessOnlyExistingEntryPoint ==
    [][/\ (/\ pc = "analyze"
           /\ pc' = "fix"
           /\ classified'.by = "service"
           /\ classified'.file \in {Unset, "unknown", ""})
          => LET names == common_files(disk, Get(language_detected, ""))
                 present == {i \in 1..Len(names) : Exists(disk, names[i])}
             IN  IF present # {}
                 THEN /\ \E i \in present :
                            /\ current_error'.file = names[i]
                            /\ \A j \in present : i <= j
                      /\ current_error'.desc = "auto-detected entry point"
                 ELSE current_error'.file \in {Unset, "unknown"}
       /\ (pc = "fix" /\ current_error.file \in {Unset, "unknown"})
          => /\ disk' = disk
             /\ fixes_applied' = fixes_applied]_vars

C29_Witness ==
    /\ prev = "analyze"
    /\ classified.by = "service"
    /\ classified.file = "unknown"
    /\ current_error.file = "index.js"
    /\ current_error.desc = "auto-detected entry point"

\* C30: no logs or raw_logs field of a result the executor returns holds
\* the access token, and no entry of the session's logs does.
C30_TokenNotInLogs ==
    /\ exec_pc = "returned" =>
          /\ ~contains(exec_result.logs, token)
          /\ ~contains(exec_result.raw_logs, token)
    /\ \A entry \in logs : ~contains(entry, token)

\* path.endswith(name) over the paths of the model
ends_with(path, name) ==
    \/ path = name
    \/ path = "src/app.py" /\ name = "app.py"

\* C31: when ANALYZE_PROJECT has run, file_list holds the path of every
\* file the workspace held.
C31_FileListHoldsWorkspace ==
    [][(pc = "analyze_project" /\ pc' = "check_dockerfile")
       => \A f \in Paths : Exists(disk, f) => f \in file_list']_vars

\* C32: a FIX step whose error file does not exist at its exact path,
\* while file_list holds a path that ends in that name, logs the fuzzy
\* match and goes on with the fix instead of skipping it.
C32_FuzzyMatchResolves ==
    [][(/\ pc = "fix"
        /\ HasFile(current_error)
        /\ ~Exists(disk, current_error.file)
        /\ \E path \in file_list : ends_with(path, current_error.file))
       => /\ "Fuzzy match found" \in logs'
          /\ "File not found in workspace." \notin logs'
          /\ iteration' = iteration]_vars

\* C33: at every entry to TEST the iteration count equals the number of
\* TEST executions completed so far.
C33_IterationCountsTests ==
    pc = "test" => iteration = visits["test"]

\* C34: the text the client returns when the generative call fails is
\* never written into a file of the workspace, and no fix is recorded
\* for it.
C34_ErrorTextNeverWritten ==
    [][pc = "fix" =>
          /\ \A f \in Paths : disk'[f] # ErrorText
          /\ (\E f \in Paths : disk'[f] # disk[f] /\ disk'[f] = ErrorText)
                => fixes_applied' = fixes_applied]_vars

DockerNodes ==
    {"check_dockerfile", "generate_dockerfile", "validate_docker",
     "fix_dockerfile"}

\* C35: FIX_DOCKERFILE runs only right after a VALIDATE whose build
\* failed, adds exactly one to the retry count and is followed by
\* VALIDATE; no step other than CLONE and FIX_DOCKERFILE changes the
\* retry count.
C35_OnlyFixDockerfileCounts ==
    [][/\ pc = "fix_dockerfile" =>
             /\ prev = "validate_docker"
             /\ docker_build_logs # BuiltLog
             /\ docker_retry_count' = docker_retry_count + 1
             /\ pc' = "validate_docker"
       /\ pc \notin {"clone", "fix_dockerfile"} =>
             docker_retry_count' = docker_retry_count]_vars

C35_Witness ==
    /\ prev = "fix_dockerfile"
    /\ pc = "validate_docker"
    /\ docker_retry_count = 2
    /\ visits["fix_dockerfile"] = 2

\* C36: TEST is entered only when a VALIDATE has reported a built image,
\* and once TEST has run the session is at none of the Dockerfile steps.
C36_LoopsDoNotInterleave ==
    /\ (pc = "test" \/ visits["test"] > 0) =>
          /\ visits["validate_docker"] > 0
          /\ docker_build_logs = BuiltLog
    /\ visits["test"] > 0 => pc \notin DockerNodes

C36_Witness ==
    /\ pc = "test"
    /\ visits["test"] = 2
    /\ visits["fix_dockerfile"] = 1
    /\ visits["validate_docker"] = 2

\* C37: in a runner that reported after its test command, the run
\* command was run exactly when the test command failed and the language
\* is node, the one language with a run command; when it was not run,
\* the reported exit code is that of the test command.
C37_RunFallbackOnlyWhenDefined ==
    (run_pc = "done" /\ test_exit # NoCount /\ RESULTS.status # "SYSTEM_ERROR") =>
        /\ run_exit # NoCount <=> (test_exit # 0 /\ RESULTS.language = "node")
        /\ run_exit = NoCount => RESULTS.exit_code = test_exit
        /\ commands \in {<<"test">>, <<"install", "test">>,
                          <<"install", "test", "run">>}

C37_Witness ==
    /\ run_pc = "done"
    /\ RESULTS.language = "python"
    /\ test_exit = 1
    /\ run_exit = NoCount
    /\ RESULTS.status = "FAILED"
    /\ RESULTS.exit_code = 1

\* C38: a step that enters TEST or CREATE_PR leaves no record with status
\* Applied, and a FIX step leaves the last record Applied exactly when it
\* appended one.
C38_AppliedResolvedByCommit ==
    [][/\ pc' \in {"test", "create_pr"} =>
             \A i \in 1..Len(fixes_applied') :
                 fixes_applied'[i].status # "Applied"
       /\ (pc = "fix" /\ pc' = "commit") =>
             ((/\ fixes_applied' # <<>>
               /\ fixes_applied'[Len(fixes_applied')].status = "Applied")
              <=> Len(fixes_applied') = Len(fixes_applied) + 1)]_vars

C38_Witness ==
    /\ pc = "test"
    /\ prev = "commit"
    /\ Len(fixes_applied) = 2
    /\ fixes_applied[1].status = "Failed Commit"
    /\ fixes_applied[2].status = "Fixed Locally"

\* C39: a VALIDATE that reports a built image is followed by TEST; TEST
\* runs at most max(1, maxIterations) times; there are no more fix
\* records than FIX executions and no more FIX than TEST executions.
C39_TestCountWithinBudget ==
    /\ (prev = "validate_docker" /\ docker_build_logs = BuiltLog) =>
          pc = "test"
    /\ visits["test"] <= (IF max_iterations > 1 THEN max_iterations ELSE 1)
    /\ Len(fixes_applied) <= visits["fix"]
    /\ visits["fix"] <= visits["test"]

\* C40: an ANALYZE step that gets a JSON object from the service, with
\* or without the fields file, line, type and description, goes on to
\* FIX.
C40_AnalyzeAlwaysCompletes ==
    [][(pc = "analyze" /\ classified'.by = "service"
                       /\ classified'.kind = "dict")
       => pc' = "fix"]_vars

=============================================================================
